---- MODULE Spec2Model ----
(***************************************************************************)
(* Generic CRUD repositories (fastapi_base.crud.sql_repo,                  *)
(* fastapi_base.crud.sql_async_repo, fastwings.crud.sql_async_repo) over   *)
(* a transactional session, and the fastwings service with its             *)
(* filter/sort compiler (fastwings.utils.base_sql_serivce).                *)
(***************************************************************************)
EXTENDS Integers, Sequences, FiniteSets, TLC

VARIABLES rows, work, last, svc, error_code, caught, cmp,
          singleton, auth, orm, sm, online

\* the repositories, their errors, the service and the compiler
repoVars == <<rows, work, last, svc, error_code, caught, cmp>>

\* Singleton, basic_auth, Base.to_dict, SessionManager, is_database_online
libVars == <<singleton, auth, orm, sm, online>>

vars == <<repoVars, libVars>>

(***************************************************************************)
(* Bounds and value universes                                              *)
(***************************************************************************)
MaxId == 2

Ids == 1..MaxId

Names == {"a", "b"}

Notes == {"x"}

Null == "null"

None == [kind |-> "None"]

Range(q) == { q[i] : i \in 1..Len(q) }


(***************************************************************************)
(* Input objects.  An obj_in is a dict or a pydantic schema; data holds    *)
(* the keys of the dict / the explicitly set fields of the schema.         *)
(***************************************************************************)
SchemaFields == {"name", "note"}

PartialData ==
  { [f \in {} |-> Null] }
  \cup { [f \in {"name"} |-> n] : n \in Names }
  \cup { [f \in {"note"} |-> t] : t \in Notes }
  \cup { [f \in {"name", "note"} |-> IF f = "name" THEN nt[1] ELSE nt[2]] : nt \in Names \X Notes }

\* MockCreateSchema: name is required
CreateInputs == { [kind |-> "schema", data |-> d] : d \in { p \in PartialData : "name" \in DOMAIN p } }

\* MockUpdateSchema or dict[str, Any]
UpdateInputs == { [kind |-> k, data |-> d] : k \in {"dict", "schema"}, d \in PartialData }

\* obj_in.dict(exclude_unset=True) / obj_in.model_dump(exclude_unset=True)
DictExcludeUnset(obj_in) == obj_in.data

\* obj_in.dict(): every schema field, the unset ones with the schema default
Dict(obj_in) ==
  [f \in SchemaFields |-> IF f \in DOMAIN obj_in.data THEN obj_in.data[f] ELSE Null]

(***************************************************************************)
(* The mapped model (tests' MockModel): id, name, note, is_deleted         *)
(***************************************************************************)
\* self.model(**obj_in_data) with the column defaults applied at flush
Model(data) ==
  [name |-> IF "name" \in DOMAIN data THEN data["name"] ELSE Null,
   note |-> IF "note" \in DOMAIN data THEN data["note"] ELSE Null,
   is_deleted |-> FALSE]

\* the ORM instance loaded for the row id of table t, None when there is none
Entity(t, id) ==
  IF id \in DOMAIN t
    THEN [kind |-> "entity", id |-> id, name |-> t[id].name,
          note |-> t[id].note, is_deleted |-> t[id].is_deleted]
    ELSE None

\* setattr(obj, key, value) for every item / Query.update(values) on one row
SetAttrs(row, data) ==
  [f \in DOMAIN row |-> IF f \in DOMAIN data THEN data[f] ELSE row[f]]

(***************************************************************************)
(* The session: rows is the committed table, work the view of the open     *)
(* transaction, log the session methods called so far in this call.        *)
(***************************************************************************)
Session == [rows |-> rows, work |-> work, log |-> <<>>]

\* a session method that was called and raised SQLAlchemyError, or that
\* changes no data
Call(s, name) == [s EXCEPT !.log = Append(@, name)]

add(s, id, row) ==
  [s EXCEPT !.work = [i \in DOMAIN s.work \cup {id} |-> IF i = id THEN row ELSE s.work[i]],
            !.log = Append(@, "add")]

commit(s) == [s EXCEPT !.rows = s.work, !.log = Append(@, "commit")]

rollback(s) == [s EXCEPT !.work = s.rows, !.log = Append(@, "rollback")]

\* Query.filter(id == obj_id).update(values)
query_update(s, id, data) ==
  [s EXCEPT !.work = [i \in DOMAIN s.work |-> IF i = id THEN SetAttrs(s.work[i], data) ELSE s.work[i]],
            !.log = Append(@, "update")]

\* setattr on the loaded instance: the change is flushed at commit
setattrs(s, id, data) ==
  [s EXCEPT !.work = [i \in DOMAIN s.work |-> IF i = id THEN SetAttrs(s.work[i], data) ELSE s.work[i]]]

\* session.delete(obj) of a loaded instance
delete_obj(s, id) ==
  [s EXCEPT !.work = [i \in DOMAIN s.work \ {id} |-> s.work[i]],
            !.log = Append(@, "delete")]

(***************************************************************************)
(* Ways a repository call ends                                             *)
(***************************************************************************)
Returned(s, result) ==
  [s |-> s, outcome |-> "returned", result |-> result, error |-> Null, data |-> Null]

ENV == "DEV"

\* the SQLAlchemyError ex caught by the except clause is the one raised by
\* the last session method called before the rollback; its formatted
\* traceback is told apart by that method
get_traceback(s) ==
  LET called == SelectSeq(s.log, LAMBDA name : name # "rollback")
  IN called[Len(called)]

\* BusinessException.__call__(ex): sets self.data and returns self
BusinessException_call(s) == IF ENV = "DEV" THEN get_traceback(s) ELSE ""

\* raise ServerErrorCode.DATABASE_ERROR.value(ex): the object raised is the
\* enum member's value itself, with its data overwritten
DATABASE_ERROR(s) ==
  [s |-> s, outcome |-> "DatabaseError", result |-> None,
   error |-> "DATABASE_ERROR", data |-> BusinessException_call(s)]

\* an exception that is not a SQLAlchemyError leaves the method uncaught
Escapes(s, exc) == [s |-> s, outcome |-> exc, result |-> None, error |-> Null, data |-> Null]

(***************************************************************************)
(* fastapi_base.crud.sql_repo.SQLRepository.  fail names the session call  *)
(* of the method that raises SQLAlchemyError (0: none does).               *)
(***************************************************************************)
SQLRepository_get(s, obj_id, fail) ==
  LET s1 == Call(s, "query")
      found == obj_id \in DOMAIN s.work /\ s.work[obj_id].is_deleted = FALSE
  IN IF fail = 1 THEN DATABASE_ERROR(s1)
     ELSE Returned(s1, IF found THEN Entity(s.work, obj_id) ELSE None)

\* variant: the except branch raises without rolling back
SQLRepository_create_no_rollback(s, obj_in, new_id, fail) ==
  LET db_obj == Model(DictExcludeUnset(obj_in))
      s1 == IF fail = 1 THEN Call(s, "add") ELSE add(s, new_id, db_obj)
      s2 == IF fail = 2 THEN Call(s1, "commit") ELSE commit(s1)
      s3 == Call(s2, "refresh")
  IN IF fail = 1 THEN DATABASE_ERROR(s1)
     ELSE IF fail = 2 THEN DATABASE_ERROR(s2)
     ELSE IF fail = 3 THEN DATABASE_ERROR(s3)
     ELSE Returned(s3, Entity(s3.rows, new_id))

SQLRepository_create(s, obj_in, new_id, fail) ==
  LET db_obj == Model(DictExcludeUnset(obj_in))
      s1 == IF fail = 1 THEN Call(s, "add") ELSE add(s, new_id, db_obj)
      s2 == IF fail = 2 THEN Call(s1, "commit") ELSE commit(s1)
      s3 == Call(s2, "refresh")
  IN IF fail = 1 THEN DATABASE_ERROR(rollback(s1))
     ELSE IF fail = 2 THEN DATABASE_ERROR(rollback(s2))
     ELSE IF fail = 3 THEN DATABASE_ERROR(rollback(s3))
     ELSE Returned(s3, Entity(s3.rows, new_id))

\* variant: obj_in.dict() without exclude_unset, the unset fields are written
\* with their defaults
SQLRepository_update_all_fields(s, obj_id, obj_in, fail) ==
  LET update_data == Dict(obj_in)
      s1 == IF fail = 1 THEN Call(s, "update") ELSE query_update(s, obj_id, update_data)
      s2 == IF fail = 2 THEN Call(s1, "commit") ELSE commit(s1)
  IN IF fail = 1 THEN DATABASE_ERROR(rollback(s1))
     ELSE IF fail = 2 THEN DATABASE_ERROR(rollback(s2))
     ELSE Returned(s2, obj_in)

\* variant: the row is read back and returned instead of obj_in
SQLRepository_update_returns_row(s, obj_id, obj_in, fail) ==
  LET update_data == DictExcludeUnset(obj_in)
      s1 == IF fail = 1 THEN Call(s, "update") ELSE query_update(s, obj_id, update_data)
      s2 == IF fail = 2 THEN Call(s1, "commit") ELSE commit(s1)
  IN IF fail = 1 THEN DATABASE_ERROR(rollback(s1))
     ELSE IF fail = 2 THEN DATABASE_ERROR(rollback(s2))
     ELSE Returned(s2, Entity(s2.rows, obj_id))

\* what the UPDATE does with an empty values dict is left to the backend:
\* fail = 1 and fail = 0 cover its raising and its being a no-op
SQLRepository_update(s, obj_id, obj_in, fail) ==
  LET update_data == DictExcludeUnset(obj_in)
      s1 == IF fail = 1 THEN Call(s, "update") ELSE query_update(s, obj_id, update_data)
      s2 == IF fail = 2 THEN Call(s1, "commit") ELSE commit(s1)
  IN IF fail = 1 THEN DATABASE_ERROR(rollback(s1))
     ELSE IF fail = 2 THEN DATABASE_ERROR(rollback(s2))
     ELSE Returned(s2, obj_in)

\* variant: the flag is written as False
SQLRepository_delete_flag_false(s, obj_id, fail) ==
  LET s1 == IF fail = 1 THEN Call(s, "update")
            ELSE query_update(s, obj_id, [f \in {"is_deleted"} |-> FALSE])
      s2 == IF fail = 2 THEN Call(s1, "commit") ELSE commit(s1)
      s3 == Call(s2, "expire_all")
  IN IF fail = 1 THEN DATABASE_ERROR(rollback(s1))
     ELSE IF fail = 2 THEN DATABASE_ERROR(rollback(s2))
     ELSE Returned(s3, None)

SQLRepository_delete(s, obj_id, fail) ==
  LET s1 == IF fail = 1 THEN Call(s, "update")
            ELSE query_update(s, obj_id, [f \in {"is_deleted"} |-> TRUE])
      s2 == IF fail = 2 THEN Call(s1, "commit") ELSE commit(s1)
      s3 == Call(s2, "expire_all")
  IN IF fail = 1 THEN DATABASE_ERROR(rollback(s1))
     ELSE IF fail = 2 THEN DATABASE_ERROR(rollback(s2))
     ELSE Returned(s3, None)

(***************************************************************************)
(* fastwings.crud.sql_async_repo.SQLAsyncRepository                        *)
(***************************************************************************)
SQLAsyncRepository_get(s, obj_id, fail) ==
  LET s1 == Call(s, "scalars")
  IN IF fail = 1 THEN DATABASE_ERROR(s1)
     ELSE Returned(s1, Entity(s.work, obj_id))

SQLAsyncRepository_create(s, obj_in, new_id, fail) ==
  LET db_obj == Model(DictExcludeUnset(obj_in))
      s1 == IF fail = 1 THEN Call(s, "add") ELSE add(s, new_id, db_obj)
      s2 == IF fail = 2 THEN Call(s1, "commit") ELSE commit(s1)
      s3 == Call(s2, "refresh")
  IN IF fail = 1 THEN DATABASE_ERROR(rollback(s1))
     ELSE IF fail = 2 THEN DATABASE_ERROR(rollback(s2))
     ELSE IF fail = 3 THEN DATABASE_ERROR(rollback(s3))
     ELSE Returned(s3, Entity(s3.rows, new_id))

\* a variant that refreshes the instance before the commit
SQLAsyncRepository_update_refresh_first(s, obj_id, obj_in, fail) ==
  LET obj == Entity(s.work, obj_id)
      update_data == DictExcludeUnset(obj_in)
      s1 == Call(s, "execute")
      s2 == IF obj = None THEN s1 ELSE setattrs(s1, obj_id, update_data)
      s3 == Call(s2, "refresh")
      s4 == IF fail = 3 THEN Call(s3, "commit") ELSE commit(s3)
  IN IF fail = 1 THEN DATABASE_ERROR(rollback(s1))
     ELSE IF obj = None /\ DOMAIN update_data # {} THEN Escapes(s1, "AttributeError")
     ELSE IF fail = 2 \/ obj = None THEN DATABASE_ERROR(rollback(s3))
     ELSE IF fail = 3 THEN DATABASE_ERROR(rollback(s4))
     ELSE Returned(s4, obj_in)

\* obj is None when no row has the id: setattr(None, ...) raises
\* AttributeError, session.refresh(None) raises UnmappedInstanceError, which
\* is a SQLAlchemyError
SQLAsyncRepository_update(s, obj_id, obj_in, fail) ==
  LET s1 == Call(s, "execute")
      obj == Entity(s.work, obj_id)
      update_data == DictExcludeUnset(obj_in)
      s2 == IF obj = None THEN s1 ELSE setattrs(s1, obj_id, update_data)
      s3 == IF fail = 2 THEN Call(s2, "commit") ELSE commit(s2)
      s4 == Call(s3, "refresh")
  IN IF fail = 1 THEN DATABASE_ERROR(rollback(s1))
     ELSE IF obj = None /\ DOMAIN update_data # {} THEN Escapes(s1, "AttributeError")
     ELSE IF fail = 2 THEN DATABASE_ERROR(rollback(s3))
     ELSE IF fail = 3 \/ obj = None THEN DATABASE_ERROR(rollback(s4))
     ELSE Returned(s4, obj_in)

\* session.delete(None) raises UnmappedInstanceError, a SQLAlchemyError
SQLAsyncRepository_delete(s, obj_id, fail) ==
  LET s1 == Call(s, "execute")
      obj == Entity(s.work, obj_id)
      s2 == IF fail = 2 \/ obj = None THEN Call(s1, "delete") ELSE delete_obj(s1, obj_id)
      s3 == IF fail = 3 THEN Call(s2, "commit") ELSE commit(s2)
  IN IF fail = 1 THEN DATABASE_ERROR(rollback(s1))
     ELSE IF fail = 2 \/ obj = None THEN DATABASE_ERROR(rollback(s2))
     ELSE IF fail = 3 THEN DATABASE_ERROR(rollback(s3))
     ELSE Returned(s3, None)

(***************************************************************************)
(* fastapi_base.crud.sql_async_repo.SQLAsyncRepository                     *)
(***************************************************************************)
FbSQLAsyncRepository_get(s, obj_id, fail) ==
  LET s1 == Call(s, "scalars")
  IN IF fail = 1 THEN DATABASE_ERROR(s1)
     ELSE Returned(s1, Entity(s.work, obj_id))

FbSQLAsyncRepository_create(s, obj_in, new_id, fail) ==
  LET db_obj == Model(Dict(obj_in))
      s1 == IF fail = 1 THEN Call(s, "add") ELSE add(s, new_id, db_obj)
      s2 == IF fail = 2 THEN Call(s1, "commit") ELSE commit(s1)
      s3 == Call(s2, "refresh")
  IN IF fail = 1 THEN DATABASE_ERROR(rollback(s1))
     ELSE IF fail = 2 THEN DATABASE_ERROR(rollback(s2))
     ELSE IF fail = 3 THEN DATABASE_ERROR(rollback(s3))
     ELSE Returned(s3, Entity(s3.rows, new_id))

FbSQLAsyncRepository_update(s, obj_id, obj_in, fail) ==
  LET s1 == Call(s, "execute")
      obj == Entity(s.work, obj_id)
      update_data == DictExcludeUnset(obj_in)
      s2 == IF obj = None THEN s1 ELSE setattrs(s1, obj_id, update_data)
      s3 == IF fail = 2 THEN Call(s2, "commit") ELSE commit(s2)
  IN IF fail = 1 THEN DATABASE_ERROR(rollback(s1))
     ELSE IF obj = None /\ DOMAIN update_data # {} THEN Escapes(s1, "AttributeError")
     ELSE IF fail = 2 THEN DATABASE_ERROR(rollback(s3))
     ELSE Returned(s3, obj_in)

FbSQLAsyncRepository_delete(s, obj_id, fail) ==
  LET s1 == Call(s, "execute")
      obj == Entity(s.work, obj_id)
      s2 == IF fail = 2 \/ obj = None THEN Call(s1, "delete") ELSE delete_obj(s1, obj_id)
      s3 == IF fail = 3 THEN Call(s2, "commit") ELSE commit(s2)
  IN IF fail = 1 THEN DATABASE_ERROR(rollback(s1))
     ELSE IF fail = 2 \/ obj = None THEN DATABASE_ERROR(rollback(s2))
     ELSE IF fail = 3 THEN DATABASE_ERROR(rollback(s3))
     ELSE Returned(s3, None)

(***************************************************************************)
(* Repository calls as actions.  last records the call that has just       *)
(* ended; the caller takes the result (Return) before the next call.       *)
(***************************************************************************)
NoCall ==
  [op |-> "none", variant |-> "none", obj_id |-> 0, obj_in |-> None, fail |-> 0,
   outcome |-> "none", result |-> None, log |-> <<>>, before |-> <<>>,
   error |-> Null, data |-> Null]

NoService == [method |-> "none"]

NoCompile == [fn |-> "none"]

\* no exception object is held by the caller
NoError == [error |-> Null, data |-> Null]

\* the members of ServerErrorCode that the repositories raise: one
\* BusinessException object each, made when the module is imported
ServerErrorCode == [DATABASE_ERROR |-> [data |-> Null]]

Finish(op, variant, obj_id, obj_in, fail, r) ==
  /\ rows' = r.s.rows
  /\ work' = r.s.work
  /\ last' = [op |-> op, variant |-> variant, obj_id |-> obj_id, obj_in |-> obj_in,
              fail |-> fail, outcome |-> r.outcome, result |-> r.result, log |-> r.s.log,
              before |-> rows, error |-> r.error, data |-> r.data]
  /\ error_code' = IF r.outcome = "DatabaseError"
                      THEN [error_code EXCEPT ![r.error].data = r.data]
                      ELSE error_code
  /\ UNCHANGED <<svc, caught, cmp, libVars>>

Idle == last.op = "none" /\ svc.method = "none" /\ cmp.fn = "none"

Get ==
  /\ Idle
  /\ \E obj_id \in Ids, fail \in 0..1 :
       \/ Finish("get", "sync", obj_id, None, fail, SQLRepository_get(Session, obj_id, fail))
       \/ Finish("get", "async", obj_id, None, fail, SQLAsyncRepository_get(Session, obj_id, fail))
       \/ Finish("get", "fb_async", obj_id, None, fail, FbSQLAsyncRepository_get(Session, obj_id, fail))

Create ==
  /\ Idle
  /\ \E obj_in \in CreateInputs, new_id \in Ids \ DOMAIN work, fail \in 0..3 :
       \/ Finish("create", "sync", new_id, obj_in, fail, SQLRepository_create(Session, obj_in, new_id, fail))
       \/ Finish("create", "async", new_id, obj_in, fail, SQLAsyncRepository_create(Session, obj_in, new_id, fail))
       \/ Finish("create", "fb_async", new_id, obj_in, fail, FbSQLAsyncRepository_create(Session, obj_in, new_id, fail))

Update ==
  /\ Idle
  /\ \E obj_id \in Ids, obj_in \in UpdateInputs :
       \/ \E fail \in 0..2 :
            Finish("update", "sync", obj_id, obj_in, fail, SQLRepository_update(Session, obj_id, obj_in, fail))
       \/ \E fail \in 0..3 :
            Finish("update", "async", obj_id, obj_in, fail, SQLAsyncRepository_update(Session, obj_id, obj_in, fail))
       \/ \E fail \in 0..2 :
            Finish("update", "fb_async", obj_id, obj_in, fail, FbSQLAsyncRepository_update(Session, obj_id, obj_in, fail))

Delete ==
  /\ Idle
  /\ \E obj_id \in Ids :
       \/ \E fail \in 0..2 :
            Finish("delete", "sync", obj_id, None, fail, SQLRepository_delete(Session, obj_id, fail))
       \/ \E fail \in 0..3 :
            Finish("delete", "async", obj_id, None, fail, SQLAsyncRepository_delete(Session, obj_id, fail))
       \/ \E fail \in 0..3 :
            Finish("delete", "fb_async", obj_id, None, fail, FbSQLAsyncRepository_delete(Session, obj_id, fail))

\* the caller has taken the result or handled the exception
Return ==
  /\ last.op # "none"
  /\ last' = NoCall
  /\ UNCHANGED <<rows, work, svc, error_code, caught, cmp, libVars>>

\* the caller has caught the DatabaseError and keeps the exception object
Keep ==
  /\ last.outcome = "DatabaseError"
  /\ caught' = [error |-> last.error, data |-> last.data]
  /\ last' = NoCall
  /\ UNCHANGED <<rows, work, svc, error_code, cmp, libVars>>

(***************************************************************************)
(* fastwings.schema.common: QueryFilter, QuerySort, ParsedRequestParams.   *)
(* A field is its dot-separated path, written as the tuple of segments     *)
(* that field.split(".") yields.  An optional integer is <<>> for None and *)
(* <<n>> for n.                                                            *)
(***************************************************************************)
OperatorType ==
  {"eq", "ne", "gt", "lt", "gte", "lte", "in", "nin", "like", "ilike",
   "starts", "ends", "cont", "isnull", "notnull"}

MaxFilters == 2

MaxSorts == 1

SeqsUpTo(S, n) == UNION { [1..k -> S] : k \in 0..n }

\* entity types: with and without the is_deleted column
ModelTypes == {"soft", "plain"}

FilterFields ==
  {<<"name">>, <<"is_deleted">>, <<"profile", "email">>, <<"profile", "nonexistent">>}

FilterValue(field) == IF field = <<"is_deleted">> THEN TRUE ELSE "a"

QueryFilters ==
  { [field |-> f, operator |-> "eq", value |-> FilterValue(f)] : f \in FilterFields }
  \cup { [field |-> <<"name">>, operator |-> "bogus", value |-> "a"] }

QuerySorts ==
  { [field |-> <<"name">>, order |-> o] : o \in {"ASC", "desc", "sideways"} }
  \cup { [field |-> <<"nonexistent">>, order |-> "ASC"] }

OrFilters == { <<>>, <<[field |-> <<"name">>, operator |-> "eq", value |-> "a"]>> }

Offsets == { <<>>, <<0>>, <<2>> }

Limits == { <<>>, <<0>>, <<5>>, <<-1>> }

ParsedRequestParams(page, per_page, limit, offset) ==
  { [page |-> page, per_page |-> per_page, limit |-> limit, offset |-> offset,
     fields |-> <<>>, filter |-> f, or_ |-> o, sort |-> st, with_deleted |-> wd] :
      f \in SeqsUpTo(QueryFilters, MaxFilters), o \in OrFilters,
      st \in SeqsUpTo(QuerySorts, MaxSorts), wd \in BOOLEAN }

(***************************************************************************)
(* fastapi_base.pattern.singleton.Singleton.  instances is the class       *)
(* attribute _instances, objs the objects made so far (an object is its    *)
(* index), thr the position of each caller inside Singleton.__call__.      *)
(***************************************************************************)
MaxThreads == 2

Threads == 1..MaxThreads

\* classes whose metaclass is Singleton
Classes == {"MyService", "OtherService"}

\* constructor arguments and values of the instance attribute
Values == {1, 100}

SingletonInit ==
  [instances |-> <<>>, objs |-> <<>>, thr |-> [t \in Threads |-> [pc |-> "idle", cls |-> "none", arg |-> 0, obj |-> 0, ret |-> 0]]]

\* variant: the class is never found in _instances
NotInInstances_always(cls, instances) == TRUE

\* cls not in cls._instances
NotInInstances(cls, instances) == cls \notin DOMAIN instances

\* the caller is outside __call__
Outside(t) == singleton.thr[t].pc \in {"idle", "returned"}

\* no other caller is inside __call__
Alone(t) == \A u \in Threads \ {t} : Outside(u)

\* if cls not in cls._instances:
Check(t) ==
  /\ Outside(t)
  /\ \E cls \in Classes, arg \in Values :
       singleton' = [singleton EXCEPT !.thr[t] =
         [pc |-> IF NotInInstances(cls, singleton.instances) THEN "create" ELSE "found",
          cls |-> cls, arg |-> arg, obj |-> 0, ret |-> 0]]
  /\ UNCHANGED <<repoVars, auth, orm, sm, online>>

\* super(Singleton, cls).__call__(*args, **kwargs): a new object, __init__
\* sets its value
Instantiate(t) ==
  /\ singleton.thr[t].pc = "create"
  /\ singleton' = [singleton EXCEPT
       !.objs = Append(@, [cls |-> singleton.thr[t].cls, value |-> singleton.thr[t].arg]),
       !.thr[t].obj = Len(singleton.objs) + 1,
       !.thr[t].pc = "made"]
  /\ UNCHANGED <<repoVars, auth, orm, sm, online>>

\* cls._instances[cls] = <the new object>
Store(t) ==
  /\ singleton.thr[t].pc = "made"
  /\ LET cls == singleton.thr[t].cls
     IN singleton' = [singleton EXCEPT
          !.instances = [c \in DOMAIN singleton.instances \cup {cls} |->
                           IF c = cls THEN singleton.thr[t].obj ELSE singleton.instances[c]],
          !.thr[t].pc = "found"]
  /\ UNCHANGED <<repoVars, auth, orm, sm, online>>

\* return cls._instances[cls]
ReturnInstance(t) ==
  /\ singleton.thr[t].pc = "found"
  /\ singleton' = [singleton EXCEPT
       !.thr[t].ret = singleton.instances[singleton.thr[t].cls],
       !.thr[t].pc = "returned"]
  /\ UNCHANGED <<repoVars, auth, orm, sm, online>>

\* a caller assigns the attribute of the instance it was given
SetValue(t) ==
  /\ singleton.thr[t].pc = "returned"
  /\ \E v \in Values :
       /\ singleton.objs[singleton.thr[t].ret].value # v
       /\ singleton' = [singleton EXCEPT !.objs[singleton.thr[t].ret].value = v]
  /\ UNCHANGED <<repoVars, auth, orm, sm, online>>

(***************************************************************************)
(* fastapi_base.authen.basic.  The two hashes are read from the            *)
(* configuration when the module is imported; call is the basic_auth call  *)
(* that has just ended.                                                    *)
(***************************************************************************)
\* user names and passwords a client may send
Plains == {"admin", "s3cret", "guest", ""}

\* get_password_hash(password): a bcrypt hash verifies the text it was made of
get_password_hash(password) == [scheme |-> "bcrypt", of |-> password]

\* the configured values: two hashes and one value that is no hash of a
\* known scheme
ConfiguredHashes ==
  {get_password_hash("admin"), get_password_hash("s3cret"), [scheme |-> "unknown", of |-> ""]}

HTTP_401_UNAUTHORIZED == 401

\* AuthErrorCode.INCORRECT_USERNAME_PASSWORD.value
INCORRECT_USERNAME_PASSWORD ==
  [status_code |-> HTTP_401_UNAUTHORIZED, code |-> "AUTH0004",
   message |-> "INCORRECT USERNAME OR PASSWORD"]

\* pwd_context.verify(plain_password, hashed_password): raises
\* UnknownHashError when the hash cannot be identified
verify_password(plain_password, hashed_password) ==
  IF hashed_password.scheme # "bcrypt"
    THEN [ok |-> FALSE, error |-> [type |-> "UnknownHashError", msg |-> "hash could not be identified", arg |-> hashed_password.scheme]]
    ELSE [ok |-> TRUE, value |-> hashed_password.of = plain_password]

AuthRaises(calls) ==
  [outcome |-> "BusinessException", error |-> INCORRECT_USERNAME_PASSWORD, calls |-> calls]

\* variant: the password is not verified when the user name is wrong
basic_auth_short_circuit(credentials, USERNAME_HASH, PASSWORD_HASH) ==
  LET correct_username == verify_password(credentials.username, USERNAME_HASH)
      correct_password == verify_password(credentials.password, PASSWORD_HASH)
  IN IF ~correct_username.ok THEN AuthRaises(<<"username">>)
     ELSE IF ~correct_username.value THEN AuthRaises(<<"username">>)
     ELSE IF ~correct_password.ok THEN AuthRaises(<<"username", "password">>)
     ELSE IF ~correct_password.value THEN AuthRaises(<<"username", "password">>)
     ELSE [outcome |-> "returned", error |-> None, calls |-> <<"username", "password">>]

\* every exception of the try block, the one it raises itself included, is
\* replaced by INCORRECT_USERNAME_PASSWORD
basic_auth(credentials, USERNAME_HASH, PASSWORD_HASH) ==
  LET correct_username == verify_password(credentials.username, USERNAME_HASH)
      correct_password == verify_password(credentials.password, PASSWORD_HASH)
  IN IF ~correct_username.ok THEN AuthRaises(<<"username">>)
     ELSE IF ~correct_password.ok THEN AuthRaises(<<"username", "password">>)
     ELSE IF ~(correct_username.value /\ correct_password.value)
       THEN AuthRaises(<<"username", "password">>)
     ELSE [outcome |-> "returned", error |-> None, calls |-> <<"username", "password">>]

NoAuthCall == [outcome |-> "none"]

AuthInit == [configured |-> FALSE, call |-> NoAuthCall]

\* import of the module: USERNAME_HASH and PASSWORD_HASH are read
Configure ==
  /\ ~auth.configured
  /\ \E u \in ConfiguredHashes, p \in ConfiguredHashes :
       auth' = [configured |-> TRUE, USERNAME_HASH |-> u, PASSWORD_HASH |-> p, call |-> NoAuthCall]
  /\ UNCHANGED <<repoVars, singleton, orm, sm, online>>

BasicAuth ==
  /\ auth.configured
  /\ auth.call.outcome = "none"
  /\ \E username \in Plains, password \in Plains :
       LET credentials == [username |-> username, password |-> password]
           r == basic_auth(credentials, auth.USERNAME_HASH, auth.PASSWORD_HASH)
       IN auth' = [auth EXCEPT !.call =
            [credentials |-> credentials, outcome |-> r.outcome, error |-> r.error, calls |-> r.calls]]
  /\ UNCHANGED <<repoVars, singleton, orm, sm, online>>

\* the request goes on or the exception handler answers
AuthReturn ==
  /\ auth.configured
  /\ auth.call.outcome # "none"
  /\ auth' = [auth EXCEPT !.call = NoAuthCall]
  /\ UNCHANGED <<repoVars, singleton, orm, sm, online>>

(***************************************************************************)
(* fastapi_base.model.Base.to_dict.  dict gives the __dict__ of every      *)
(* loaded instance: a column value, an InstrumentedList of related         *)
(* instances, or a plain list of the __dict__ objects of instances.  call  *)
(* is the to_dict call that has just returned.                             *)
(***************************************************************************)
Scalar(v) == [kind |-> "value", v |-> v]

InstrumentedList(items) == [kind |-> "InstrumentedList", items |-> items]

\* a user with two addresses, as loaded from the database
Loaded ==
  [user |-> [id |-> Scalar("1"), name |-> Scalar("Jane"), password |-> Scalar("pw"),
             is_deleted |-> Scalar("False"),
             addresses |-> InstrumentedList(<<"address1", "address2">>)],
   address1 |-> [id |-> Scalar("201"), city |-> Scalar("Anytown"), is_deleted |-> Scalar("False")],
   address2 |-> [id |-> Scalar("202"), city |-> Scalar("Anytown"), is_deleted |-> Scalar("True")]]

IgnoreFields ==
  { {"is_deleted", "password", "updated_at", "_sa_instance_state"},
    {"city"}, {"name", "id"}, {"addresses"}, {} }

\* the function f without the keys in ks
Without(f, ks) == [k \in DOMAIN f \ ks |-> f[k]]

RECURSIVE to_dict(_, _, _)
RECURSIVE ConvertItems(_, _, _)
RECURSIVE ConvertFields(_, _, _, _)

\* [obj.to_dict(ignore_fields) for obj in v]: every call works on the heap
\* the call before it left
ConvertItems(heap, items, ignore_fields) ==
  IF items = <<>> THEN heap
  ELSE ConvertItems(to_dict(heap, Head(items), ignore_fields), Tail(items), ignore_fields)

\* for k, v in result.items(): an InstrumentedList is replaced, in result,
\* by the list of what to_dict returns for its elements
ConvertFields(heap, obj, keys, ignore_fields) ==
  IF keys = {} THEN heap
  ELSE LET k == CHOOSE x \in keys : TRUE
           v == heap[obj][k]
           h == IF v.kind = "InstrumentedList"
                  THEN [ConvertItems(heap, v.items, ignore_fields) EXCEPT
                          ![obj][k] = [kind |-> "list", items |-> v.items]]
                  ELSE heap
       IN ConvertFields(h, obj, keys \ {k}, ignore_fields)

\* result = self.__dict__: result is the instance's own dictionary, so the
\* heap after the call holds what was returned
to_dict(heap, obj, ignore_fields) ==
  LET deleted == [heap EXCEPT ![obj] = Without(heap[obj], ignore_fields)]
  IN ConvertFields(deleted, obj, DOMAIN deleted[obj], ignore_fields)

\* a dictionary as its reader sees it: lists hold dictionaries
RECURSIVE View(_, _)
View(heap, obj) ==
  [k \in DOMAIN heap[obj] |->
     IF heap[obj][k].kind = "value" THEN heap[obj][k]
     ELSE [kind |-> heap[obj][k].kind,
           items |-> [i \in DOMAIN heap[obj][k].items |-> View(heap, heap[obj][k].items[i])]]]

NoToDict == [obj |-> "none"]

OrmInit == [dict |-> Loaded, call |-> NoToDict]

ToDict ==
  /\ \E obj \in DOMAIN Loaded, ignore_fields \in IgnoreFields :
       LET heap == to_dict(orm.dict, obj, ignore_fields)
       IN orm' = [dict |-> heap,
                  call |-> [obj |-> obj, ignore_fields |-> ignore_fields,
                            before |-> orm.dict, result |-> View(heap, obj)]]
  /\ UNCHANGED <<repoVars, singleton, auth, sm, online>>

(***************************************************************************)
(* fastapi_base.connection.sql_conn and sql_async_conn: SessionManager.    *)
(* initialized tells, for each of the two managers, whether _engine and    *)
(* _sessionmaker are set; open holds the with-blocks in progress; call is  *)
(* the call or the with-block exit that has just ended.                    *)
(***************************************************************************)
MaxBlocks == 2

Managers == {"sync", "async"}

\* what the body of a with-block does: it ends normally, raises an
\* Exception, or raises a BaseException that is no Exception
\* (GeneratorExit, KeyboardInterrupt, asyncio.CancelledError)
BlockEnds == {"none", "ValueError", "CancelledError"}

IsException(exc) == exc = "ValueError"

NotInitialized == "SessionManager is not initialized"

\* variant: the session is closed only when the block did not raise
session_exit_no_finally(manager, raised, rollback_raises) ==
  IF raised = "none" THEN [log |-> <<"close">>, propagated |-> "none"]
  ELSE IF IsException(raised)
    THEN [log |-> <<"rollback">>, propagated |-> IF rollback_raises THEN "SQLAlchemyError" ELSE raised]
  ELSE [log |-> <<>>, propagated |-> raised]

\* the part of session() after the yield: except Exception rolls back and
\* re-raises, finally closes; the asynchronous manager also leaves the
\* `async with self._sessionmaker()` block, which closes the session again
session_exit(manager, raised, rollback_raises) ==
  LET handled == IF IsException(raised) THEN <<"rollback">> ELSE <<>>
      propagated == IF IsException(raised) /\ rollback_raises THEN "SQLAlchemyError" ELSE raised
      closed == Append(handled, "close")
  IN [log |-> IF manager = "async" THEN Append(closed, "close") ELSE closed,
      propagated |-> propagated]

\* the part of connect() after the yield: except Exception rolls back and
\* re-raises; leaving engine.begin() commits, or rolls back on an exception
connect_exit(manager, raised, rollback_raises) ==
  LET handled == IF IsException(raised) THEN <<"rollback">> ELSE <<>>
      propagated == IF IsException(raised) /\ rollback_raises THEN "SQLAlchemyError" ELSE raised
  IN [log |-> Append(handled, IF propagated = "none" THEN "commit" ELSE "rollback"),
      propagated |-> propagated]

NoManagerCall == [op |-> "none"]

SessionManagerInit ==
  [initialized |-> [m \in Managers |-> TRUE], open |-> <<>>, call |-> NoManagerCall]

\* entering `with sessionmanager.session()` or `with sessionmanager.connect()`
Enter(op) ==
  /\ Len(sm.open) < MaxBlocks
  /\ \E manager \in Managers :
       IF sm.initialized[manager]
         THEN sm' = [sm EXCEPT
                !.open = Append(@, [op |-> op, manager |-> manager]),
                !.call = [op |-> op, phase |-> "enter", manager |-> manager, initialized |-> TRUE,
                          raised |-> "none", log |-> <<>>, propagated |-> "none", yielded |-> TRUE]]
         ELSE sm' = [sm EXCEPT
                !.call = [op |-> op, phase |-> "enter", manager |-> manager, initialized |-> FALSE,
                          raised |-> "none", log |-> <<>>, propagated |-> NotInitialized, yielded |-> FALSE]]
  /\ UNCHANGED <<repoVars, singleton, auth, orm, online>>

EnterSession == Enter("session")

EnterConnect == Enter("connect")

\* the body of a with-block ends and the context manager is left
ExitBlock ==
  /\ \E i \in DOMAIN sm.open, raised \in BlockEnds, rollback_raises \in BOOLEAN :
       LET b == sm.open[i]
           r == IF b.op = "session" THEN session_exit(b.manager, raised, rollback_raises)
                ELSE connect_exit(b.manager, raised, rollback_raises)
       IN /\ rollback_raises => IsException(raised)
          /\ sm' = [sm EXCEPT
               !.open = SubSeq(sm.open, 1, i - 1) \o SubSeq(sm.open, i + 1, Len(sm.open)),
               !.call = [op |-> b.op, phase |-> "exit", manager |-> b.manager, initialized |-> TRUE,
                         raised |-> raised, log |-> r.log, propagated |-> r.propagated,
                         yielded |-> TRUE]]
  /\ UNCHANGED <<repoVars, singleton, auth, orm, online>>

\* SessionManager.close()
CloseManager ==
  /\ \E manager \in Managers :
       sm' = [sm EXCEPT
         !.initialized[manager] = FALSE,
         !.call = [op |-> "close", phase |-> "enter", manager |-> manager,
                   initialized |-> sm.initialized[manager], raised |-> "none",
                   log |-> IF sm.initialized[manager] THEN <<"dispose">> ELSE <<>>,
                   propagated |-> IF sm.initialized[manager] THEN "none" ELSE NotInitialized,
                   yielded |-> FALSE]]
  /\ UNCHANGED <<repoVars, singleton, auth, orm, online>>

(***************************************************************************)
(* fastapi_base.connection.sql_conn.is_database_online under               *)
(* @retry(stop=stop_after_attempt(30), wait=wait_fixed(1)).  attempt is    *)
(* the number of attempts made in the call in progress, result what the    *)
(* call has ended with.                                                    *)
(***************************************************************************)
stop_after_attempt == 30

\* how session.execute(select(1)) ends in one attempt
QueryEnds == {"ok", "SQLAlchemyError", "TimeoutError", "RuntimeError"}

\* the body of is_database_online: the two exception types are caught and
\* answered with False, any other exception leaves the function
is_database_online(query) ==
  IF query = "ok" THEN [raised |-> "none", value |-> "True"]
  ELSE IF query \in {"SQLAlchemyError", "TimeoutError"} THEN [raised |-> "none", value |-> "False"]
  ELSE [raised |-> query, value |-> "none"]

\* tenacity: an attempt that returns ends the call with its value; one that
\* raises is retried until the stop condition, then RetryError is raised
retry(attempt_number, outcome) ==
  IF outcome.raised = "none" THEN outcome.value
  ELSE IF attempt_number >= stop_after_attempt THEN "RetryError"
  ELSE "none"

OnlineInit == [attempt |-> 0, query |-> "none", result |-> "none"]

Attempt ==
  /\ online.result = "none"
  /\ \E query \in QueryEnds :
       online' = [attempt |-> online.attempt + 1, query |-> query,
                  result |-> retry(online.attempt + 1, is_database_online(query))]
  /\ UNCHANGED <<repoVars, singleton, auth, orm, sm>>

\* the caller has the answer
OnlineReturn ==
  /\ online.result # "none"
  /\ online' = OnlineInit
  /\ UNCHANGED <<repoVars, singleton, auth, orm, sm>>

Init ==
  /\ rows = <<>>
  /\ work = <<>>
  /\ last = NoCall
  /\ svc = NoService
  /\ error_code = ServerErrorCode
  /\ caught = NoError
  /\ cmp = NoCompile
  /\ singleton = SingletonInit
  /\ auth = AuthInit
  /\ orm = OrmInit
  /\ sm = SessionManagerInit
  /\ online = OnlineInit

Next == Get \/ Create \/ Update \/ Delete \/ Return

Spec == Init /\ [][Next]_vars

\* failing calls on an empty table, with a caller that keeps what it caught
NextErrors == Get \/ Update \/ Delete \/ Return \/ Keep

SpecErrors == Init /\ [][NextErrors]_vars

\* constructor calls one after the other
NextSingleton ==
  \E t \in Threads :
    \/ Alone(t) /\ Check(t)
    \/ Alone(t) /\ Instantiate(t)
    \/ Alone(t) /\ Store(t)
    \/ Alone(t) /\ ReturnInstance(t)
    \/ Alone(t) /\ SetValue(t)

SpecSingleton == Init /\ [][NextSingleton]_vars

\* constructor calls from several threads, switched between any two steps
NextThreads ==
  \E t \in Threads :
    Check(t) \/ Instantiate(t) \/ Store(t) \/ ReturnInstance(t) \/ SetValue(t)

SpecThreads == Init /\ [][NextThreads]_vars

NextAuth == Configure \/ BasicAuth \/ AuthReturn

SpecAuth == Init /\ [][NextAuth]_vars

SpecToDict == Init /\ [][ToDict]_vars

NextSessionManager == EnterSession \/ EnterConnect \/ ExitBlock \/ CloseManager

SpecSessionManager == Init /\ [][NextSessionManager]_vars

NextOnline == Attempt \/ OnlineReturn

SpecOnline == Init /\ [][NextOnline]_vars

(***************************************************************************)
(* fastwings.utils.base_sql_serivce: the filter/sort compiler.  A function *)
(* that can raise yields [ok |-> TRUE, value |-> v] or                     *)
(* [ok |-> FALSE, error |-> e].                                            *)
(***************************************************************************)
Ok(v) == [ok |-> TRUE, value |-> v]

ValueError(msg, arg) == [ok |-> FALSE, error |-> [type |-> "ValueError", msg |-> msg, arg |-> arg]]

\* hasattr(column, part), column being the attribute reached along path
\* (<<>> is the model class itself)
hasattr(model, path, part) ==
  IF path = <<>>
    THEN part \in {"id", "name", "note", "profile"}
                  \cup (IF model = "soft" THEN {"is_deleted"} ELSE {})
    ELSE IF path = <<"profile">> THEN part \in {"email"}
    ELSE FALSE

OPERATORS ==
  [eq      |-> [kind |-> "==", wrap |-> <<"v">>],
   ne      |-> [kind |-> "!=", wrap |-> <<"v">>],
   gt      |-> [kind |-> ">", wrap |-> <<"v">>],
   lt      |-> [kind |-> "<", wrap |-> <<"v">>],
   gte     |-> [kind |-> ">=", wrap |-> <<"v">>],
   lte     |-> [kind |-> "<=", wrap |-> <<"v">>],
   in      |-> [kind |-> "in", wrap |-> <<"v">>],
   nin     |-> [kind |-> "not_in", wrap |-> <<"v">>],
   like    |-> [kind |-> "like", wrap |-> <<"v">>],
   ilike   |-> [kind |-> "ilike", wrap |-> <<"v">>],
   starts  |-> [kind |-> "like", wrap |-> <<"v", "%">>],
   ends    |-> [kind |-> "like", wrap |-> <<"%", "v">>],
   cont    |-> [kind |-> "like", wrap |-> <<"%", "v", "%">>],
   isnull  |-> [kind |-> "is", wrap |-> <<"None">>],
   notnull |-> [kind |-> "is_not", wrap |-> <<"None">>]]

\* the f-strings f"{val}%", f"%{val}" and f"%{val}%": a string is the
\* sequence of its characters
RECURSIVE Format(_, _)
Format(wrap, val) ==
  IF wrap = <<>> THEN <<>>
  ELSE (IF Head(wrap) = "v" THEN val ELSE <<Head(wrap)>>) \o Format(Tail(wrap), val)

\* variant: no operator adds wildcards
Predicate_no_wildcards(op, column, val) ==
  LET o == OPERATORS[op]
  IN [kind |-> o.kind, col |-> column,
      arg |-> IF o.wrap = <<"None">> THEN <<>> ELSE <<val>>]

\* OPERATORS[op](col, val): the predicate, its argument being <<val>> for
\* val handed over as it is, <<pattern>> for val wrapped in % wildcards, or
\* <<>> for None
Predicate(op, column, val) ==
  LET o == OPERATORS[op]
  IN [kind |-> o.kind, col |-> column,
      arg |-> IF o.wrap = <<"v">> THEN <<val>>
              ELSE IF o.wrap = <<"None">> THEN <<>>
              ELSE <<Format(o.wrap, val)>>]

\* getattr(model, "is_deleted").is_(False)
SoftDeletePredicate == [kind |-> "is", col |-> <<"is_deleted">>, arg |-> <<FALSE>>]

RECURSIVE GetColumnFrom(_, _, _, _)
GetColumnFrom(model, column, parts, field) ==
  IF parts = <<>> THEN Ok(column)
  ELSE IF ~hasattr(model, column, Head(parts)) THEN ValueError("Invalid field", field)
  ELSE GetColumnFrom(model, Append(column, Head(parts)), Tail(parts), field)

\* variant: the path is not walked, every field is taken as a column
get_column_unchecked(model, query_item) == Ok(query_item.field)

get_column(model, query_item) ==
  GetColumnFrom(model, <<>>, query_item.field, query_item.field)

\* variant: the operator is looked up before the column
build_filter_condition_operator_first(model, filter_item) ==
  LET column == get_column(model, filter_item)
      op == filter_item.operator
      val == filter_item.value
  IN IF op \notin DOMAIN OPERATORS THEN ValueError("Unsupported operator", op)
     ELSE IF ~column.ok THEN column
     ELSE Ok(Predicate(op, column.value, val))

build_filter_condition(model, filter_item) ==
  LET column == get_column(model, filter_item)
      op == filter_item.operator
      val == filter_item.value
  IN IF ~column.ok THEN column
     ELSE IF op \notin DOMAIN OPERATORS THEN ValueError("Unsupported operator", op)
     ELSE Ok(Predicate(op, column.value, val))

\* str.upper() on the sort orders in use
upper(order) ==
  IF order \in {"asc", "ASC"} THEN "ASC"
  ELSE IF order \in {"desc", "DESC"} THEN "DESC"
  ELSE "SIDEWAYS"

RECURSIVE SortLoop(_, _, _)
SortLoop(model, sorts, order_by) ==
  IF sorts = <<>> THEN Ok(order_by)
  ELSE LET s == Head(sorts)
           column == get_column(model, s)
       IN IF ~column.ok THEN column
          ELSE IF upper(s.order) = "ASC"
            THEN SortLoop(model, Tail(sorts), Append(order_by, [col |-> column.value, dir |-> "asc"]))
          ELSE IF upper(s.order) = "DESC"
            THEN SortLoop(model, Tail(sorts), Append(order_by, [col |-> column.value, dir |-> "desc"]))
          ELSE ValueError("Unsupported sort order", s.order)

\* variant: an order that is not written in upper case is not recognised
convert_sort_exact_case(model, parsed) ==
  SortLoop(model,
           [i \in DOMAIN parsed.sort |->
              [parsed.sort[i] EXCEPT !.order = IF @ \in {"ASC", "DESC"} THEN @ ELSE "sideways"]],
           <<>>)

convert_sort(model, parsed) == SortLoop(model, parsed.sort, <<>>)

AttributeError(obj, name) ==
  [ok |-> FALSE, error |-> [type |-> "AttributeError", msg |-> obj, arg |-> name]]

\* attribute access on a ParsedRequestParams: only its declared fields exist
getattr(parsed, name) ==
  IF name \in DOMAIN parsed THEN Ok(parsed[name])
  ELSE AttributeError("ParsedRequestParams", name)

RECURSIVE FilterLoop(_, _, _)
FilterLoop(model, items, filters) ==
  IF items = <<>> THEN Ok(filters)
  ELSE LET c == build_filter_condition(model, Head(items))
       IN IF ~c.ok THEN c
          ELSE FilterLoop(model, Tail(items), Append(filters, c.value))

\* or_(*or_conditions)
or_(conditions) == [kind |-> "or", args |-> conditions]

\* the loop reads parsed._or; the field of ParsedRequestParams is or_
convert_or(model, parsed) ==
  LET items == getattr(parsed, "_or")
      or_conditions == FilterLoop(model, items.value, <<>>)
  IN IF ~items.ok THEN items
     ELSE IF ~or_conditions.ok THEN or_conditions
     ELSE Ok(or_(or_conditions.value))

\* variant: the soft-delete predicate comes after the filter predicates
convert_filter_soft_delete_last(model, parsed) ==
  LET filters == FilterLoop(model, parsed.filter, <<>>)
  IN IF ~filters.ok THEN filters
     ELSE IF ~parsed.with_deleted /\ hasattr(model, <<>>, "is_deleted")
       THEN Ok(Append(filters.value, SoftDeletePredicate))
       ELSE filters

\* variant: the soft-delete predicate is never added
convert_filter_with_deleted(model, parsed) == FilterLoop(model, parsed.filter, <<>>)

convert_filter(model, parsed) ==
  LET filters == IF ~parsed.with_deleted /\ hasattr(model, <<>>, "is_deleted")
                   THEN <<SoftDeletePredicate>>
                   ELSE <<>>
  IN FilterLoop(model, parsed.filter, filters)

(***************************************************************************)
(* fastwings.service.base_sql.BaseSQLService.  Each method yields the      *)
(* sequence of repository calls it makes and the error it raises, if any.  *)
(***************************************************************************)
DefaultLimit == 10

DefaultPerPage == 20

\* Python's `x or d` on an optional integer
OrDefault(x, d) == IF x = <<>> \/ x = <<0>> THEN d ELSE x[1]

Raises(r) == [calls |-> <<>>, outcome |-> r.error.type, error |-> r.error]

Delegates(call) == [calls |-> <<call>>, outcome |-> "delegated", error |-> None]

get_by(model, parsed) ==
  LET filters == convert_filter(model, parsed)
      order_by == convert_sort(model, parsed)
  IN IF ~filters.ok THEN Raises(filters)
     ELSE IF ~order_by.ok THEN Raises(order_by)
     ELSE Delegates([method |-> "get_by", order_by |-> order_by.value, filters |-> filters.value])

get_many(model, parsed) ==
  LET filters == convert_filter(model, parsed)
      order_by == convert_sort(model, parsed)
      offset == OrDefault(parsed.offset, 0)
      limit == OrDefault(parsed.limit, DefaultLimit)
  IN IF ~filters.ok THEN Raises(filters)
     ELSE IF ~order_by.ok THEN Raises(order_by)
     ELSE Delegates([method |-> "get_many", offset |-> offset, limit |-> limit,
                     order_by |-> order_by.value, filters |-> filters.value])

get_all(model, parsed) ==
  LET filters == convert_filter(model, parsed)
      order_by == convert_sort(model, parsed)
  IN IF ~filters.ok THEN Raises(filters)
     ELSE IF ~order_by.ok THEN Raises(order_by)
     ELSE Delegates([method |-> "get_all", order_by |-> order_by.value, filters |-> filters.value])

count(model, parsed) ==
  LET filters == convert_filter(model, parsed)
  IN IF ~filters.ok THEN Raises(filters)
     ELSE Delegates([method |-> "count", filters |-> filters.value])

exists(model, parsed) ==
  LET filters == convert_filter(model, parsed)
  IN IF ~filters.ok THEN Raises(filters)
     ELSE Delegates([method |-> "exists", filters |-> filters.value])

update_many(model, parsed, values) ==
  LET filters == convert_filter(model, parsed)
  IN IF ~filters.ok THEN Raises(filters)
     ELSE Delegates([method |-> "update_many", filters |-> filters.value, values |-> values])

delete_many(model, parsed) ==
  LET filters == convert_filter(model, parsed)
  IN IF ~filters.ok THEN Raises(filters)
     ELSE Delegates([method |-> "delete_many", filters |-> filters.value])

restore_many(model, parsed) ==
  LET filters == convert_filter(model, parsed)
  IN IF ~filters.ok THEN Raises(filters)
     ELSE Delegates([method |-> "restore_many", filters |-> filters.value])

hard_delete_many(model, parsed) ==
  LET filters == convert_filter(model, parsed)
  IN IF ~filters.ok THEN Raises(filters)
     ELSE Delegates([method |-> "hard_delete_many", filters |-> filters.value])

paginate(model, parsed) ==
  LET filters == convert_filter(model, parsed)
      order_by == convert_sort(model, parsed)
      page == OrDefault(parsed.page, 1)
      per_page == OrDefault(parsed.per_page, DefaultPerPage)
  IN IF ~filters.ok THEN Raises(filters)
     ELSE IF ~order_by.ok THEN Raises(order_by)
     ELSE Delegates([method |-> "paginate", page |-> page, per_page |-> per_page,
                     order_by |-> order_by.value, filters |-> filters.value])

(***************************************************************************)
(* Service calls as actions.  svc records the call that has just ended.    *)
(***************************************************************************)
Serve(method, model, parsed, r) ==
  /\ svc' = [method |-> method, model |-> model, parsed |-> parsed,
             outcome |-> r.outcome, error |-> r.error, calls |-> r.calls]
  /\ UNCHANGED <<rows, work, last, error_code, caught, cmp, libVars>>

Unpaged == ParsedRequestParams(<<>>, <<>>, <<>>, <<>>)

GetBy ==
  /\ Idle
  /\ \E model \in ModelTypes, parsed \in Unpaged : Serve("get_by", model, parsed, get_by(model, parsed))

GetMany ==
  /\ Idle
  /\ \E model \in ModelTypes, limit \in Limits, offset \in Offsets :
       \E parsed \in ParsedRequestParams(<<>>, <<>>, limit, offset) :
         Serve("get_many", model, parsed, get_many(model, parsed))

GetAll ==
  /\ Idle
  /\ \E model \in ModelTypes, parsed \in Unpaged : Serve("get_all", model, parsed, get_all(model, parsed))

Count ==
  /\ Idle
  /\ \E model \in ModelTypes, parsed \in Unpaged : Serve("count", model, parsed, count(model, parsed))

Exists ==
  /\ Idle
  /\ \E model \in ModelTypes, parsed \in Unpaged : Serve("exists", model, parsed, exists(model, parsed))

UpdateMany ==
  /\ Idle
  /\ \E model \in ModelTypes, parsed \in Unpaged :
       Serve("update_many", model, parsed, update_many(model, parsed, [name |-> "b"]))

DeleteMany ==
  /\ Idle
  /\ \E model \in ModelTypes, parsed \in Unpaged :
       Serve("delete_many", model, parsed, delete_many(model, parsed))

RestoreMany ==
  /\ Idle
  /\ \E model \in ModelTypes, parsed \in Unpaged :
       Serve("restore_many", model, parsed, restore_many(model, parsed))

HardDeleteMany ==
  /\ Idle
  /\ \E model \in ModelTypes, parsed \in Unpaged :
       Serve("hard_delete_many", model, parsed, hard_delete_many(model, parsed))

Paginate ==
  /\ Idle
  /\ \E model \in ModelTypes, page \in Offsets, per_page \in Limits :
       \E parsed \in ParsedRequestParams(page, per_page, <<>>, <<>>) :
         Serve("paginate", model, parsed, paginate(model, parsed))

ServiceReturn ==
  /\ svc.method # "none"
  /\ svc' = NoService
  /\ UNCHANGED <<rows, work, last, error_code, caught, cmp, libVars>>

NextService ==
  \/ Count \/ Exists \/ GetBy \/ GetMany \/ GetAll \/ UpdateMany \/ DeleteMany
  \/ RestoreMany \/ HardDeleteMany \/ Paginate \/ ServiceReturn

SpecService == Init /\ [][NextService]_vars

(***************************************************************************)
(* The compiler functions called on their own.  cmp records the call that  *)
(* has just ended.                                                         *)
(***************************************************************************)
MaxSortKeys == 2

\* a string value, as the sequence of its characters
FilterValues == { <<"a", "b">>, <<"%">>, <<>> }

CompileFilters ==
  { [field |-> f, operator |-> op, value |-> v] :
      f \in {<<"name">>, <<"profile", "email">>, <<"profile", "nonexistent">>},
      op \in OperatorType \cup {"bogus"},
      v \in FilterValues }

CompileSorts ==
  { [field |-> f, order |-> o] :
      f \in {<<"name">>, <<"note">>, <<"nonexistent">>},
      o \in {"ASC", "DESC", "asc", "sideways"} }

\* a ParsedRequestParams with the defaults of the schema for the rest
ParsedWith(filter, or_list, sort, with_deleted) ==
  [page |-> <<>>, per_page |-> <<>>, limit |-> <<>>, offset |-> <<>>,
   fields |-> <<>>, filter |-> filter, or_ |-> or_list, sort |-> sort,
   with_deleted |-> with_deleted]

Compiled(fn, model, parsed, item, result) ==
  /\ Idle
  /\ cmp' = [fn |-> fn, model |-> model, parsed |-> parsed, item |-> item, result |-> result]
  /\ UNCHANGED <<rows, work, last, svc, error_code, caught, libVars>>

BuildFilterCondition ==
  \E model \in ModelTypes, item \in CompileFilters :
    Compiled("build_filter_condition", model, ParsedWith(<<>>, <<>>, <<>>, FALSE), item,
             build_filter_condition(model, item))

ConvertFilter ==
  \E model \in ModelTypes, filter \in SeqsUpTo(QueryFilters, MaxFilters), with_deleted \in BOOLEAN :
    LET parsed == ParsedWith(filter, <<>>, <<>>, with_deleted)
    IN Compiled("convert_filter", model, parsed, None, convert_filter(model, parsed))

ConvertOr ==
  \E model \in ModelTypes, or_list \in SeqsUpTo(QueryFilters, MaxFilters) :
    LET parsed == ParsedWith(<<>>, or_list, <<>>, FALSE)
    IN Compiled("convert_or", model, parsed, None, convert_or(model, parsed))

ConvertSort ==
  \E model \in ModelTypes, sort \in SeqsUpTo(CompileSorts, MaxSortKeys) :
    LET parsed == ParsedWith(<<>>, <<>>, sort, FALSE)
    IN Compiled("convert_sort", model, parsed, None, convert_sort(model, parsed))

CompileReturn ==
  /\ cmp.fn # "none"
  /\ cmp' = NoCompile
  /\ UNCHANGED <<rows, work, last, svc, error_code, caught, libVars>>

NextCompile == BuildFilterCondition \/ ConvertFilter \/ ConvertOr \/ ConvertSort \/ CompileReturn

SpecCompile == Init /\ [][NextCompile]_vars

(***************************************************************************)
(* Properties of the service and the compiler                              *)
(***************************************************************************)
\* the rows an entity type can hold, as far as the predicates in use look
ServiceRows(model) ==
  IF model = "soft"
    THEN [name : Names, email : Names, is_deleted : BOOLEAN]
    ELSE [name : Names, email : Names]

ColumnValue(row, col) ==
  CASE col = <<"name">> -> row.name
    [] col = <<"profile", "email">> -> row.email
    [] col = <<"is_deleted">> -> row.is_deleted

\* the row satisfies the predicate
Holds(p, row) ==
  CASE p.kind \in {"==", "is"} -> p.arg = <<ColumnValue(row, p.col)>>
    [] p.kind \in {"!=", "is_not"} -> p.arg # <<ColumnValue(row, p.col)>>

\* consumers AND the predicates of a list together
Matches(filters, row) == \A i \in 1..Len(filters) : Holds(filters[i], row)

QueryMethods == {"get_by", "get_many", "get_all", "count", "exists", "paginate"}

SortingMethods == {"get_by", "get_many", "get_all", "paginate"}

\* C1: the predicate list handed to the repository by a query method starts
\* with 'is_deleted IS false' exactly when with_deleted is false and the
\* model has an is_deleted attribute, and holds no such predicate otherwise;
\* with it, no row whose is_deleted is true matches the list.
C1_SoftDeletePredicate ==
  (svc.method \in QueryMethods /\ svc.outcome = "delegated") =>
    LET filters == svc.calls[1].filters
        soft == ~svc.parsed.with_deleted /\ hasattr(svc.model, <<>>, "is_deleted")
    IN /\ Len(svc.calls) = 1
       /\ soft =>
            /\ filters # <<>>
            /\ Head(filters) = SoftDeletePredicate
            /\ SoftDeletePredicate \notin Range(Tail(filters))
            /\ \A row \in ServiceRows(svc.model) : row.is_deleted => ~Matches(filters, row)
       /\ ~soft => SoftDeletePredicate \notin Range(filters)

C1_Witness ==
  /\ svc.method = "get_many"
  /\ svc.outcome = "delegated"
  /\ svc.model = "soft"
  /\ ~svc.parsed.with_deleted
  /\ Len(svc.parsed.filter) = 2
  /\ svc.parsed.filter[2].field = <<"is_deleted">>
  /\ Len(svc.calls[1].filters) = 3
  /\ Head(svc.calls[1].filters) = SoftDeletePredicate

\* a segment of the path is not an attribute of what the path reaches
BadField(model, item) ==
  \E k \in 1..Len(item.field) : ~hasattr(model, SubSeq(item.field, 1, k - 1), item.field[k])

\* C2 as claimed: a service call whose filter or sort paths include an
\* invalid one fails with the invalid-field error naming that path, before
\* any repository call.
C2_InvalidFieldFailsAll ==
  LET bad == { svc.parsed.filter[i].field : i \in { j \in DOMAIN svc.parsed.filter : BadField(svc.model, svc.parsed.filter[j]) } }
             \cup { svc.parsed.sort[i].field : i \in { j \in DOMAIN svc.parsed.sort : BadField(svc.model, svc.parsed.sort[j]) } }
  IN (svc.method # "none" /\ bad # {}) =>
       /\ svc.calls = <<>>
       /\ svc.outcome = "ValueError"
       /\ svc.error.msg = "Invalid field"
       /\ svc.error.arg \in bad

\* C2 amended: the entries a method compiles are its filters and, for the
\* methods that order their result (get_by, get_many, get_all, paginate),
\* its sorts.  When one of them has an invalid path the call raises
\* ValueError before any repository call; the error is the invalid-field
\* error naming the full path of the first such entry, unless an entry
\* compiled before it has an unsupported operator or sort order.
C2_InvalidFieldFailsCompiled ==
  svc.method # "none" =>
    LET items == svc.parsed.filter \o (IF svc.method \in SortingMethods THEN svc.parsed.sort ELSE <<>>)
        nf == Len(svc.parsed.filter)
        bad == { i \in DOMAIN items : BadField(svc.model, items[i]) }
        first == CHOOSE i \in bad : \A j \in bad : i <= j
        supported(i) == IF i <= nf THEN items[i].operator \in OperatorType
                        ELSE upper(items[i].order) \in {"ASC", "DESC"}
    IN bad # {} =>
         /\ svc.calls = <<>>
         /\ svc.outcome = "ValueError"
         /\ (\A i \in 1..(first - 1) : supported(i)) =>
              /\ svc.error.msg = "Invalid field"
              /\ svc.error.arg = items[first].field

C2_Witness ==
  /\ svc.method = "paginate"
  /\ svc.outcome = "ValueError"
  /\ svc.calls = <<>>
  /\ Len(svc.parsed.filter) = 2
  /\ ~BadField(svc.model, svc.parsed.filter[1])
  /\ svc.parsed.filter[2].field = <<"profile", "nonexistent">>
  /\ svc.error.msg = "Invalid field"
  /\ svc.error.arg = <<"profile", "nonexistent">>

(***************************************************************************)
(* Properties of the repositories                                          *)
(***************************************************************************)
Mutating == {"create", "update", "delete"}

\* what get(id) of the repository class v returns in the current state
GetNow(v, obj_id) ==
  IF v = "sync" THEN SQLRepository_get(Session, obj_id, 0).result
  ELSE IF v = "async" THEN SQLAsyncRepository_get(Session, obj_id, 0).result
  ELSE FbSQLAsyncRepository_get(Session, obj_id, 0).result

\* C3: create calls add, commit, refresh once each in that order and returns
\* the persisted entity built from the input fields; when one of the three
\* raises a backend error, rollback follows the failing call, DatabaseError
\* is raised and no entity is returned.
C3_CreateAddCommitRefresh ==
  last.op = "create" =>
    /\ last.outcome \in {"returned", "DatabaseError"}
    /\ last.outcome = "returned" <=> last.fail = 0
    /\ last.outcome = "returned" =>
         /\ last.log = <<"add", "commit", "refresh">>
         /\ last.result.kind = "entity"
         /\ last.result = Entity(rows, last.obj_id)
         /\ \A f \in DOMAIN last.obj_in.data : last.result[f] = last.obj_in.data[f]
    /\ last.outcome = "DatabaseError" =>
         /\ last.result = None
         /\ last.log = Append(SubSeq(<<"add", "commit", "refresh">>, 1, last.fail), "rollback")

C3_Witness ==
  /\ last.op = "create"
  /\ last.outcome = "returned"
  /\ last.obj_in.data = [f \in {"name", "note"} |-> IF f = "name" THEN "b" ELSE "x"]
  /\ last.obj_id \in DOMAIN rows

\* C4: a repository method that raises DatabaseError has called
\* session.rollback in that call, before raising.
C4_RollbackBeforeDatabaseError ==
  last.outcome = "DatabaseError" => "rollback" \in Range(last.log)

\* C5: a mutating call ends either with a successful commit and a normal
\* return, or with a rollback and DatabaseError; nothing else escapes and no
\* change is left uncommitted in the session.
C5_CommittedOrRolledBack ==
  last.op \in Mutating =>
    /\ work = rows
    /\ \/ /\ last.outcome = "returned"
          /\ "commit" \in Range(last.log)
          /\ "rollback" \notin Range(last.log)
       \/ /\ last.outcome = "DatabaseError"
          /\ "rollback" \in Range(last.log)

C7_DeleteIdempotent ==
  (/\ last.op = "delete"
   /\ last.fail = 0
   /\ (last.obj_id \in DOMAIN last.before => last.before[last.obj_id].is_deleted)) =>
    /\ last.outcome = "returned"
    /\ rows = last.before

\* C8: without a backend failure, update(id, input) of an id that has no row
\* fails with NotFound and changes no row.
C8_UpdateMissingNotFound ==
  (last.op = "update" /\ last.fail = 0 /\ last.obj_id \notin DOMAIN last.before) =>
    /\ last.outcome = "NotFound"
    /\ rows = last.before

\* C9: update(id, input) changes only the fields present in input, of the
\* row id only.
C9_UpdateFrame ==
  last.op = "update" =>
    /\ DOMAIN rows = DOMAIN last.before
    /\ \A i \in DOMAIN rows : \A f \in DOMAIN rows[i] :
         (i # last.obj_id \/ f \notin DOMAIN last.obj_in.data) =>
           rows[i][f] = last.before[i][f]

C9_Witness ==
  /\ last.op = "update"
  /\ last.outcome = "returned"
  /\ last.obj_in.kind = "schema"
  /\ DOMAIN last.obj_in.data = {"name"}
  /\ last.obj_id \in DOMAIN last.before
  /\ rows[last.obj_id].name # last.before[last.obj_id].name
  /\ rows[last.obj_id].note = "x"
  /\ DOMAIN rows # {last.obj_id}

\* C10 as claimed: update(id, input) of an existing row returns the stored
\* row as it is after the commit.
C10_UpdateReturnsEntity ==
  (last.op = "update" /\ last.outcome = "returned" /\ last.obj_id \in DOMAIN last.before) =>
    last.result = Entity(rows, last.obj_id)

\* C10 amended: update(id, input) of an existing row returns the obj_in it
\* was given; the stored row after the commit has the input's fields set and
\* its other fields as before.
C10_UpdateReturnsInput ==
  (last.op = "update" /\ last.outcome = "returned" /\ last.obj_id \in DOMAIN last.before) =>
    /\ last.result = last.obj_in
    /\ last.obj_id \in DOMAIN rows
    /\ rows[last.obj_id] = SetAttrs(last.before[last.obj_id], last.obj_in.data)

C10_Witness ==
  /\ last.op = "update"
  /\ last.outcome = "returned"
  /\ last.obj_id \in DOMAIN last.before
  /\ DOMAIN last.obj_in.data = {"note"}
  /\ last.before[last.obj_id].note = Null
  /\ rows[last.obj_id].note = "x"
  /\ last.result = last.obj_in

\* the number of calls of a session method in a call's log
Calls(log, name) == Cardinality({i \in DOMAIN log : log[i] = name})

C12_GetExcludesSoftDeleted ==
  (/\ last.op = "get"
   /\ last.outcome = "returned"
   /\ last.obj_id \in DOMAIN last.before
   /\ last.before[last.obj_id].is_deleted) =>
    last.result = None

\* two calls end the same way: same result, same error, same stored rows
SameEnd(r1, r2) ==
  /\ r1.outcome = r2.outcome
  /\ r1.result = r2.result
  /\ r1.s.rows = r2.s.rows

\* C13: from the same stored rows, every get, create, update and delete
\* with the same arguments and a healthy backend ends the same way in the
\* synchronous and in both asynchronous repositories.
C13_SyncAsyncSameSemantics ==
  Idle =>
    /\ \A obj_id \in Ids :
         /\ SameEnd(SQLRepository_get(Session, obj_id, 0), SQLAsyncRepository_get(Session, obj_id, 0))
         /\ SameEnd(SQLRepository_get(Session, obj_id, 0), FbSQLAsyncRepository_get(Session, obj_id, 0))
         /\ SameEnd(SQLRepository_delete(Session, obj_id, 0), SQLAsyncRepository_delete(Session, obj_id, 0))
         /\ SameEnd(SQLRepository_delete(Session, obj_id, 0), FbSQLAsyncRepository_delete(Session, obj_id, 0))
         /\ \A obj_in \in UpdateInputs :
              /\ SameEnd(SQLRepository_update(Session, obj_id, obj_in, 0),
                         SQLAsyncRepository_update(Session, obj_id, obj_in, 0))
              /\ SameEnd(SQLRepository_update(Session, obj_id, obj_in, 0),
                         FbSQLAsyncRepository_update(Session, obj_id, obj_in, 0))
    /\ \A new_id \in Ids \ DOMAIN work : \A obj_in \in CreateInputs :
         /\ SameEnd(SQLRepository_create(Session, obj_in, new_id, 0),
                    SQLAsyncRepository_create(Session, obj_in, new_id, 0))
         /\ SameEnd(SQLRepository_create(Session, obj_in, new_id, 0),
                    FbSQLAsyncRepository_create(Session, obj_in, new_id, 0))

\* C15: the DatabaseError a caller has caught is not touched by later
\* calls: its diagnostic data stays what it was when it was raised, and a
\* later failing call raises another error object.
C15_ErrorsIndependent ==
  caught # NoError =>
    /\ error_code[caught.error].data = caught.data
    /\ last.outcome = "DatabaseError" => last.error # caught.error

\* C14: the predicates restore_many hands to the repository match every row
\* that delete_many with the same parameters has soft-deleted, that is every
\* row with is_deleted true that matched delete_many's predicates while its
\* is_deleted was false.
C14_RestoreMatchesDeleted ==
  (svc.method = "restore_many" /\ svc.outcome = "delegated" /\ svc.model = "soft") =>
    LET deleted == delete_many(svc.model, svc.parsed).calls[1].filters
    IN \A row \in ServiceRows(svc.model) :
         (row.is_deleted /\ Matches(deleted, [row EXCEPT !.is_deleted = FALSE])) =>
           Matches(svc.calls[1].filters, row)

\* the row satisfies a condition that may be an OR of predicates
Satisfies(c, row) ==
  IF c.kind = "or" THEN \E i \in 1..Len(c.args) : Holds(c.args[i], row)
  ELSE Holds(c, row)

\* the entry has a valid field and a supported operator
Compilable(model, item) == ~BadField(model, item) /\ item.operator \in OperatorType

\* C16: for a non-empty or_ list of entries with valid fields and supported
\* operators, convert_or returns a condition satisfied by exactly the rows
\* that satisfy at least one entry.
C16_OrOfEntries ==
  (/\ cmp.fn = "convert_or"
   /\ cmp.parsed.or_ # <<>>
   /\ \A k \in DOMAIN cmp.parsed.or_ : Compilable(cmp.model, cmp.parsed.or_[k])) =>
    /\ cmp.result.ok
    /\ \A row \in ServiceRows(cmp.model) :
         Satisfies(cmp.result.value, row) <=>
           \E k \in DOMAIN cmp.parsed.or_ :
             Holds(build_filter_condition(cmp.model, cmp.parsed.or_[k]).value, row)

\* C17: a list returned by convert_filter holds, after the soft-delete
\* predicate if there is one, exactly one predicate per entry of
\* parsed.filter, the k-th being the compilation of the k-th entry.
C17_OnePredicatePerEntry ==
  (cmp.fn = "convert_filter" /\ cmp.result.ok) =>
    LET entries == cmp.parsed.filter
        filters == cmp.result.value
        first == IF ~cmp.parsed.with_deleted /\ cmp.model = "soft" THEN 1 ELSE 0
    IN /\ Len(filters) = Len(entries) + first
       /\ first = 1 => filters[1] = SoftDeletePredicate
       /\ \A k \in DOMAIN entries :
            filters[first + k] = build_filter_condition(cmp.model, entries[k]).value

C17_Witness ==
  /\ cmp.fn = "convert_filter"
  /\ cmp.result.ok
  /\ Len(cmp.parsed.filter) = 2
  /\ cmp.parsed.filter[1].field = <<"profile", "email">>
  /\ cmp.parsed.filter[2].field = <<"name">>
  /\ Len(cmp.result.value) = 3
  /\ cmp.result.value[2].col = <<"profile", "email">>
  /\ cmp.result.value[3].col = <<"name">>

\* the entry convert_sort is expected to return for a sort key
SortEntry(s, ascending, descending) ==
  [col |-> s.field, dir |-> IF s.order \in ascending THEN "asc" ELSE "desc"]

\* what C18 says of a convert_sort call whose sort fields are all valid,
\* given the orders that count as ascending and as descending
SortContract(ascending, descending) ==
  (cmp.fn = "convert_sort" /\ \A k \in DOMAIN cmp.parsed.sort : ~BadField(cmp.model, cmp.parsed.sort[k])) =>
    LET sort == cmp.parsed.sort
        unknown == { k \in DOMAIN sort : sort[k].order \notin ascending \cup descending }
    IN IF unknown = {}
         THEN /\ cmp.result.ok
              /\ cmp.result.value = [k \in DOMAIN sort |-> SortEntry(sort[k], ascending, descending)]
         ELSE /\ ~cmp.result.ok
              /\ cmp.result.error.msg = "Unsupported sort order"
              /\ \E k \in unknown : /\ cmp.result.error.arg = sort[k].order
                                    /\ \A j \in unknown : k <= j

\* C18 as claimed: one (column, direction) entry per sort key, in input
\* order, ASC ascending and DESC descending; any other order fails with the
\* unsupported-sort-order error and no list is returned.
C18_SortOrders == SortContract({"ASC"}, {"DESC"})

\* C18 amended: the order is compared after upper-casing, so asc and desc
\* in any case are accepted too; an order that is neither fails with the
\* unsupported-sort-order error naming the first such order.
C18_SortOrdersIgnoringCase == SortContract({"ASC", "asc"}, {"DESC", "desc"})

C18_Witness ==
  /\ cmp.fn = "convert_sort"
  /\ cmp.result.ok
  /\ cmp.parsed.sort = <<[field |-> <<"note">>, order |-> "asc"], [field |-> <<"name">>, order |-> "DESC"]>>
  /\ cmp.result.value = <<[col |-> <<"note">>, dir |-> "asc"], [col |-> <<"name">>, dir |-> "desc"]>>

\* C19: with a valid field, an operator outside the fifteen fails with the
\* unsupported-operator error and each of the fifteen compiles to a
\* predicate; with an invalid field the invalid-field error is raised,
\* whatever the operator.
C19_OperatorErrors ==
  cmp.fn = "build_filter_condition" =>
    IF BadField(cmp.model, cmp.item)
      THEN /\ ~cmp.result.ok
           /\ cmp.result.error.msg = "Invalid field"
           /\ cmp.result.error.arg = cmp.item.field
    ELSE IF cmp.item.operator \in OperatorType
      THEN /\ cmp.result.ok
           /\ cmp.result.value.col = cmp.item.field
    ELSE /\ ~cmp.result.ok
         /\ cmp.result.error.msg = "Unsupported operator"
         /\ cmp.result.error.arg = cmp.item.operator

C19_Witness ==
  /\ cmp.fn = "build_filter_condition"
  /\ cmp.item.field = <<"profile", "nonexistent">>
  /\ cmp.item.operator = "bogus"
  /\ ~cmp.result.ok
  /\ cmp.result.error.msg = "Invalid field"

\* C20: like and ilike compile to a LIKE and an ILIKE on exactly the value;
\* starts, ends and cont compile to a case-sensitive LIKE on the value
\* followed by %, preceded by %, and between two %.
C20_Wildcards ==
  (cmp.fn = "build_filter_condition" /\ cmp.result.ok) =>
    LET op == cmp.item.operator
        v == cmp.item.value
        p == cmp.result.value
    IN /\ op = "like" => (p.kind = "like" /\ p.arg = <<v>>)
       /\ op = "ilike" => (p.kind = "ilike" /\ p.arg = <<v>>)
       /\ op = "starts" => (p.kind = "like" /\ p.arg = <<v \o <<"%">>>>)
       /\ op = "ends" => (p.kind = "like" /\ p.arg = <<<<"%">> \o v>>)
       /\ op = "cont" => (p.kind = "like" /\ p.arg = <<<<"%">> \o v \o <<"%">>>>)

C20_Witness ==
  /\ cmp.fn = "build_filter_condition"
  /\ cmp.item.operator = "cont"
  /\ cmp.item.value = <<"a", "b">>
  /\ cmp.result.ok
  /\ cmp.result.value.kind = "like"
  /\ cmp.result.value.arg = <<<<"%", "a", "b", "%">>>>

\* C21: get_many passes offset 0 when none is given, a positive limit, the
\* default limit when none is given and a given offset or limit unchanged;
\* paginate passes a page of at least 1, page 1 when none is given, a
\* positive per_page, the default when none is given and a given page or
\* per_page unchanged.
C21_BoundedWindow ==
  /\ (svc.method = "get_many" /\ svc.outcome = "delegated") =>
       LET c == svc.calls[1]
       IN /\ c.offset = (IF svc.parsed.offset = <<>> THEN 0 ELSE svc.parsed.offset[1])
          /\ c.limit = (IF svc.parsed.limit = <<>> THEN DefaultLimit ELSE svc.parsed.limit[1])
          /\ c.limit > 0
  /\ (svc.method = "paginate" /\ svc.outcome = "delegated") =>
       LET c == svc.calls[1]
       IN /\ c.page = (IF svc.parsed.page = <<>> THEN 1 ELSE svc.parsed.page[1])
          /\ c.per_page = (IF svc.parsed.per_page = <<>> THEN DefaultPerPage ELSE svc.parsed.per_page[1])
          /\ c.page >= 1
          /\ c.per_page > 0

\* the service method of that name, called again with other parameters
ServiceCall(method, model, parsed, values) ==
  CASE method = "get_by" -> get_by(model, parsed)
    [] method = "get_many" -> get_many(model, parsed)
    [] method = "get_all" -> get_all(model, parsed)
    [] method = "count" -> count(model, parsed)
    [] method = "exists" -> exists(model, parsed)
    [] method = "update_many" -> update_many(model, parsed, values)
    [] method = "delete_many" -> delete_many(model, parsed)
    [] method = "restore_many" -> restore_many(model, parsed)
    [] method = "hard_delete_many" -> hard_delete_many(model, parsed)
    [] method = "paginate" -> paginate(model, parsed)

\* C25: a service call with a non-empty or_ list hands the repository a
\* predicate list that differs from the one the same call without the or_
\* list hands over.
C25_OrTakesEffect ==
  (svc.method # "none" /\ svc.outcome = "delegated" /\ svc.parsed.or_ # <<>>) =>
    LET values == IF svc.method = "update_many" THEN svc.calls[1].values ELSE <<>>
        plain == ServiceCall(svc.method, svc.model, [svc.parsed EXCEPT !.or_ = <<>>], values)
    IN svc.calls[1].filters # plain.calls[1].filters

\* C28: update(id, input) and delete(id) of the synchronous repository
\* leave a row whose is_deleted is already true as it is.
C28_SoftDeletedUntouched ==
  (/\ last.op \in {"update", "delete"}
   /\ last.variant = "sync"
   /\ last.obj_id \in DOMAIN last.before
   /\ last.before[last.obj_id].is_deleted) =>
    rows = last.before

\* the objects made for a class
ObjectsOf(cls) == { o \in DOMAIN singleton.objs : singleton.objs[o].cls = cls }

\* a caller moves inside __call__
CallStep(t) == singleton'.thr[t].pc # singleton.thr[t].pc

\* C22: with constructor calls made one after the other, a class is
\* instantiated at most once, every call returns the object stored for its
\* class, distinct classes have distinct objects, and a call for a class
\* that already has its instance makes no object and leaves the instance's
\* state as it is, whatever its arguments.
C22_OneInstancePerClass ==
  /\ [](/\ \A cls \in Classes : Cardinality(ObjectsOf(cls)) <= 1
        /\ \A t \in Threads :
             singleton.thr[t].pc = "returned" =>
               /\ singleton.thr[t].ret = singleton.instances[singleton.thr[t].cls]
               /\ singleton.objs[singleton.thr[t].ret].cls = singleton.thr[t].cls
        /\ \A c1, c2 \in DOMAIN singleton.instances :
             c1 # c2 => singleton.instances[c1] # singleton.instances[c2])
  /\ [][\A t \in Threads :
          (CallStep(t) /\ singleton'.thr[t].cls \in DOMAIN singleton.instances) =>
            (singleton'.objs = singleton.objs /\ singleton'.instances = singleton.instances)]_vars

C22_Witness ==
  /\ singleton.thr[1].pc = "returned"
  /\ singleton.thr[2].pc = "returned"
  /\ singleton.thr[1].cls = "MyService"
  /\ singleton.thr[2].cls = "MyService"
  /\ singleton.thr[1].arg = 1
  /\ singleton.thr[2].arg = 100
  /\ singleton.thr[1].ret = singleton.thr[2].ret
  /\ singleton.objs[singleton.thr[1].ret].value = 1
  /\ "OtherService" \in DOMAIN singleton.instances

\* C26: under any interleaving of constructor calls from several threads, a
\* class is instantiated at most once and all callers of a class are
\* returned the same object.
C26_OneInstanceUnderThreads ==
  /\ \A cls \in Classes : Cardinality(ObjectsOf(cls)) <= 1
  /\ \A t, u \in Threads :
       (/\ singleton.thr[t].pc = "returned"
        /\ singleton.thr[u].pc = "returned"
        /\ singleton.thr[t].cls = singleton.thr[u].cls) =>
         singleton.thr[t].ret = singleton.thr[u].ret

\* the text verifies against the configured hash
Verifies(plain, hashed) == hashed.scheme = "bcrypt" /\ hashed.of = plain

\* C23: basic_auth returns exactly when the user name and the password both
\* verify against their configured hashes, and otherwise raises
\* INCORRECT_USERNAME_PASSWORD with its 401 status, code and message; the
\* password is verified in every call in which the verification of the user
\* name does not raise.
C23_BasicAuth ==
  (auth.configured /\ auth.call.outcome # "none") =>
    LET c == auth.call
        user_ok == Verifies(c.credentials.username, auth.USERNAME_HASH)
        password_ok == Verifies(c.credentials.password, auth.PASSWORD_HASH)
    IN /\ c.outcome = "returned" <=> (user_ok /\ password_ok)
       /\ c.outcome # "returned" =>
            /\ c.outcome = "BusinessException"
            /\ c.error.status_code = 401
            /\ c.error.code = "AUTH0004"
            /\ c.error.message = "INCORRECT USERNAME OR PASSWORD"
       /\ c.calls = IF auth.USERNAME_HASH.scheme = "bcrypt"
                      THEN <<"username", "password">>
                      ELSE <<"username">>

C23_Witness ==
  /\ auth.configured
  /\ auth.call.outcome = "BusinessException"
  /\ auth.USERNAME_HASH = get_password_hash("admin")
  /\ auth.PASSWORD_HASH = get_password_hash("s3cret")
  /\ auth.call.credentials = [username |-> "guest", password |-> "s3cret"]
  /\ auth.call.calls = <<"username", "password">>
  /\ auth.call.error = INCORRECT_USERNAME_PASSWORD

\* what C24 says to_dict returns: the fields of the instance that are not
\* ignored, a relationship list converted element by element
RECURSIVE Expected(_, _)
Expected(obj, ignore_fields) ==
  [k \in DOMAIN Loaded[obj] \ ignore_fields |->
     IF Loaded[obj][k].kind = "value" THEN Loaded[obj][k]
     ELSE [kind |-> "list",
           items |-> [i \in DOMAIN Loaded[obj][k].items |->
                        Expected(Loaded[obj][k].items[i], ignore_fields)]]]

\* C24: to_dict(ignore_fields) returns the fields of the instance without
\* the ignored ones, at the top level and in every element of every
\* relationship list, every other field with its value.
C24_ToDictResult ==
  orm.call.obj # "none" =>
    orm.call.result = Expected(orm.call.obj, orm.call.ignore_fields)

\* C29: to_dict leaves the instance and the related instances as they were
\* before the call.
C29_ToDictReadOnly ==
  orm.call.obj # "none" => orm.dict = orm.call.before

\* the positions of a session method in a log
At(log, name) == { i \in DOMAIN log : log[i] = name }

\* what C27 says of a session() block that has been left, given the ends
\* of the block that count as raising, and of calls on a closed manager
SessionContract(raising) ==
  /\ (sm.call.op = "session" /\ sm.call.phase = "exit") =>
       /\ At(sm.call.log, "close") # {}
       /\ At(sm.call.log, "rollback") # {} <=> sm.call.raised \in raising
       /\ \A i \in At(sm.call.log, "rollback") : \A j \in At(sm.call.log, "close") : i < j
  /\ (sm.call.op \in {"session", "connect", "close"} /\ sm.call.phase = "enter"
         /\ ~sm.call.initialized) =>
       /\ sm.call.propagated = NotInitialized
       /\ ~sm.call.yielded

\* C27 as claimed: the session is closed on every exit path and rolled back
\* before that exactly when the block raised, the block's exception then
\* propagating; on a closed manager session(), connect() and close() raise
\* 'SessionManager is not initialized' and yield nothing.
C27_SessionClosedRolledBack ==
  /\ SessionContract(BlockEnds \ {"none"})
  /\ (sm.call.op = "session" /\ sm.call.phase = "exit") =>
       sm.call.propagated = sm.call.raised

\* C27 amended: the rollback is made exactly when the block raised an
\* Exception; a BaseException that is no Exception propagates after the
\* close without a rollback; the block's exception propagates unless the
\* rollback itself raised, in which case the rollback's exception does.
C27_SessionClosedRolledBackOnException ==
  /\ SessionContract({ e \in BlockEnds : IsException(e) })
  /\ (sm.call.op = "session" /\ sm.call.phase = "exit") =>
       \/ sm.call.propagated = sm.call.raised
       \/ IsException(sm.call.raised) /\ sm.call.propagated = "SQLAlchemyError"

C27_Witness ==
  /\ sm.call.op = "session"
  /\ sm.call.phase = "exit"
  /\ sm.call.manager = "sync"
  /\ sm.call.raised = "ValueError"
  /\ sm.call.log = <<"rollback", "close">>
  /\ sm.call.propagated = "ValueError"
  /\ ~sm.initialized["sync"]

\* C30: is_database_online answers False only after stop_after_attempt
\* attempts, never after a single failed one, and answers True as soon as
\* an attempt's query succeeds.
C30_RetriesBeforeOffline ==
  /\ online.result = "False" => online.attempt = stop_after_attempt
  /\ online.query = "ok" => online.result = "True"
  /\ online.result = "True" => online.query = "ok"

====
